---- MODULE Spec2Model ----
(***************************************************************************)
(* Model of src/app.py: the four-step job matcher.                         *)
(*                                                                         *)
(*  - the session (st.session_state: step, resume_analysis,                *)
(*    job_preferences, jobs), the sidebar widgets and the buttons, driven  *)
(*    by one action per user interaction, each of which is one execution   *)
(*    of main();                                                           *)
(*  - JobMatcher._format_search_query and JobMatcher.calculate_match_score *)
(*    as operators, used by main() and also applied on their own to        *)
(*    bounded sets of arguments (SpecFormat, SpecScore).                   *)
(*                                                                         *)
(* Python values are tagged records [t, v]: t is the Python type, v the    *)
(* value.  A dict is a record whose missing keys hold Absent.  A string    *)
(* on which the code calls .lower() is a sequence of character codes.      *)
(* A match score is kept in hundredths (66.67 is 6667).                    *)
(***************************************************************************)
EXTENDS Integers, Sequences, FiniteSets, TLC

VARIABLES
    step,               \* st.session_state.step
    resume_analysis,    \* st.session_state.resume_analysis
    job_preferences,    \* st.session_state.job_preferences
    jobs,               \* st.session_state.jobs
    claude_api_key,     \* sidebar text input
    theirstack_api_key, \* sidebar text input
    uploaded_file,      \* the file uploader's value
    buttons,            \* the buttons the last execution of main() rendered
    messages,           \* the st.error / st.warning / st.success it showed
    pressed,            \* the button whose press started the last execution
    failures,           \* what failed in the last execution
    rerun,              \* st.rerun() was called: main() runs again at once
    query,              \* the query the last execution handed to _format_search_query
    formatted_query,    \* what it returned
    job,                \* the job handed to calculate_match_score
    candidate_skills,   \* the skills handed to it
    score,              \* what it returned, in hundredths
    earlier             \* the skills and the score of the call before, same job

session == <<step, resume_analysis, job_preferences, jobs>>
widgets == <<claude_api_key, theirstack_api_key, uploaded_file>>
display == <<buttons, messages, pressed, failures, rerun>>
formatter == <<query, formatted_query>>
scorer == <<job, candidate_skills, score, earlier>>
vars == <<session, widgets, display, formatter, scorer>>

----------------------------------------------------------------------------
(* Bounds *)

\* the longest skill list of a job or of a candidate
MaxSkills == 3
\* the longest skill list of a query handed to the formatter on its own
MaxQuerySkills == 2
\* the most jobs one search returns
MaxJobs == 2

----------------------------------------------------------------------------
(* Python values *)

NoneV == [t |-> "none", v |-> "None"]
Absent == [t |-> "absent", v |-> "absent"]
Str(s) == [t |-> "str", v |-> s]
\* a str kept as its character codes
Chars(s) == [t |-> "chars", v |-> s]
Float(x) == [t |-> "float", v |-> x]
Bool(b) == [t |-> "bool", v |-> b]
List(l) == [t |-> "list", v |-> l]

\* d.get(k): None for a missing key
Get(d, k) == IF d[k].t = "absent" THEN NoneV ELSE d[k]

\* d.get(k, default)
GetOr(d, k, default) == IF d[k].t = "absent" THEN default ELSE d[k]

\* the truth value Python's `if x:` gives x
Truthy(x) ==
    CASE x.t = "none" -> FALSE
      [] x.t = "bool" -> x.v
      [] x.t = "str"  -> x.v # ""
      [] x.t = "chars" -> x.v # <<>>
      [] x.t = "list" -> x.v # <<>>
      [] x.t = "float" -> x.v # 0

\* str.lower(), on character codes: 'A'..'Z' are 65..90, 'a' is 'A' + 32
LowerChar(c) == IF c \in 65..90 THEN c + 32 ELSE c
Lower(s) == [i \in DOMAIN s |-> LowerChar(s[i])]

\* set(list)
ToSet(l) == {l[i] : i \in DOMAIN l}

\* the sequences over S of length at most n
SeqsUpTo(S, n) == UNION {[1..k -> S] : k \in 0..n}

\* formatted_query[k] = v
Put(d, k, val) == [x \in DOMAIN d \cup {k} |-> IF x = k THEN val ELSE d[x]]

\* {}
EmptyDict == [x \in {} |-> 0]

----------------------------------------------------------------------------
(* JobMatcher._format_search_query *)

c_entry == <<101, 110, 116, 114, 121>>
c_mid == <<109, 105, 100>>
c_senior == <<115, 101, 110, 105, 111, 114>>

\* other spellings: "Senior", "Mid", "lead"
c_Senior == <<83, 101, 110, 105, 111, 114>>
c_Mid == <<77, 105, 100>>
c_lead == <<108, 101, 97, 100>>

\* ["entry", "mid", "senior"]
AcceptedLevels == {c_entry, c_mid, c_senior}

\* MaxAgeDays with the default of the connectivity test's query
MaxAgeDays_Default30(date_posted) ==
    IF date_posted = Str("Last 24 hours") THEN 1
    ELSE IF date_posted = Str("Last 7 days") THEN 7
    ELSE 30

\* lines 124-133: the recency filter, always emitted
MaxAgeDays(date_posted) ==
    IF date_posted = Str("Last 24 hours") THEN 1
    ELSE IF date_posted = Str("Last 7 days") THEN 7
    ELSE IF date_posted = Str("Last 30 days") THEN 30
    ELSE 90

\* lines 136-137
WithCompany(q, fq) ==
    IF Truthy(Get(q, "company"))
    THEN Put(fq, "company_name_or", <<Get(q, "company").v>>)
    ELSE fq

\* lines 140-141
WithTitle(q, fq) ==
    IF Truthy(Get(q, "title"))
    THEN Put(fq, "job_title_contains_any", <<Get(q, "title").v>>)
    ELSE fq

\* WithLocation without the `if`
WithLocation_Always(q, fq) ==
    Put(fq, "location_contains_any", <<Get(q, "location").v>>)

\* lines 143-144
WithLocation(q, fq) ==
    IF Truthy(Get(q, "location"))
    THEN Put(fq, "location_contains_any", <<Get(q, "location").v>>)
    ELSE fq

\* WithRemote with `if query.get("remote"):` for `is True`
WithRemote_Truthy(q, fq) ==
    IF Truthy(Get(q, "remote"))
    THEN Put(fq, "remote_contains_any", <<"true">>)
    ELSE fq

\* lines 147-148: `is True`, so only the boolean True
WithRemote(q, fq) ==
    IF Get(q, "remote").t = "bool" /\ Get(q, "remote").v = TRUE
    THEN Put(fq, "remote_contains_any", <<"true">>)
    ELSE fq

\* lines 151-154
WithSkills(q, fq) ==
    IF Truthy(Get(q, "skills")) /\ Get(q, "skills").t = "list"
    THEN Put(fq, "technologies_contains_any", Get(q, "skills").v)
    ELSE fq

\* lines 157-160
WithSeniority(q, fq) ==
    IF Truthy(Get(q, "experience_level"))
       /\ Get(q, "experience_level").t = "chars"
       /\ Lower(Get(q, "experience_level").v) \in AcceptedLevels
    THEN Put(fq, "seniority_contains_any", <<Lower(Get(q, "experience_level").v)>>)
    ELSE fq

format_search_query(q) ==
    LET f0 == Put(EmptyDict, "posted_at_max_age_days", MaxAgeDays(Get(q, "date_posted")))
        f1 == WithCompany(q, f0)
        f2 == WithTitle(q, f1)
        f3 == WithLocation(q, f2)
        f4 == WithRemote(q, f3)
        f5 == WithSkills(q, f4)
    IN  WithSeniority(q, f5)

----------------------------------------------------------------------------
(* JobMatcher.calculate_match_score *)

\* round(num / den * 100, 2) in hundredths: the nearest hundredth, a tie
\* going to the even one
Round2(num, den) ==
    LET n == 10000 * num
        lo == n \div den
        r == n % den
    IN  IF 2 * r < den THEN lo
        ELSE IF 2 * r > den THEN lo + 1
        ELSE IF lo % 2 = 0 THEN lo ELSE lo + 1

\* calculate_match_score with the overlap taken of all the skills named, the
\* candidate's too
calculate_match_score_Union(j, cand) ==
    LET required_skills == ToSet(GetOr(j, "required_skills", List(<<>>)).v)
        matches == required_skills \cap ToSet(cand)
    IN  IF required_skills = {} THEN 0
        ELSE Round2(Cardinality(matches), Cardinality(required_skills \cup ToSet(cand)))

\* calculate_match_score with a job that asks for nothing matched in full
calculate_match_score_Full(j, cand) ==
    LET required_skills == ToSet(GetOr(j, "required_skills", List(<<>>)).v)
        matches == required_skills \cap ToSet(cand)
    IN  IF required_skills = {} THEN 10000
        ELSE Round2(Cardinality(matches), Cardinality(required_skills))

calculate_match_score(j, cand) ==
    LET required_skills == ToSet(GetOr(j, "required_skills", List(<<>>)).v)
        cand_set == ToSet(cand)
        matches == required_skills \cap cand_set
    IN  IF required_skills = {} THEN 0
        ELSE Round2(Cardinality(matches), Cardinality(required_skills))

----------------------------------------------------------------------------
(* What the user and the outside world can supply *)

Skills == {"Python", "SQL", "AWS"}

\* the keys main() reads from an analysis (lines 301-313, 372-373)
AnalysisKeys == {"technical_skills", "years_experience", "seniority_level",
                 "education", "achievements"}

\* {} : what session_state.get("resume_analysis", {}) gives before any analysis
NoAnalysis == [k \in AnalysisKeys |-> Absent]

Analysis(skills, level) ==
    [technical_skills |-> List(skills), years_experience |-> Float(500),
     seniority_level |-> Chars(level), education |-> List(<<"BSc">>),
     achievements |-> List(<<>>)]

\* the analyses the LLM's reply can parse to: well formed ones, one that
\* lacks a key main() displays, and the empty object
WellFormed == {Analysis(<<"Python", "SQL">>, c_Senior), Analysis(<<>>, c_lead)}
Malformed == [Analysis(<<"Go">>, c_mid) EXCEPT !["education"] = Absent]
Analyses == WellFormed \cup {Malformed, NoAnalysis}

\* what analyze_resume can do: parse a reply, or fail in the call or in json.loads
LlmOutcomes == [kind : {"ok"}, analysis : Analyses]
               \cup [kind : {"call_error", "json_error"}, analysis : {NoAnalysis}]

\* what extracting the text of a supported file can do
ParseOutcomes == {"text", "empty", "error"}

Extensions == {"pdf", "docx", "txt", "csv"}
NoFile == "none"

PreferenceKeys == {"title", "location", "company", "date_posted", "remote"}

\* {} : what session_state.get("job_preferences", {}) gives before any search
NoPreferences == [k \in PreferenceKeys |-> Absent]

\* lines 332-335
DateOptions == {"Last 24 hours", "Last 7 days", "Last 30 days", "Last 90 days"}
RemoteOptions == {"Any", "Remote only", "Hybrid", "In-office"}

\* the step 2 form as the user can fill it in: a title or none, a company or
\* none, two of the dates and two of the remote preferences
Forms == [title : {Str(""), Str("Engineer")}, location : {Str("")},
          company : {Str(""), Str("Acme")},
          date_posted : {Str(d) : d \in DateOptions \cap {"Last 7 days", "Last 90 days"}},
          remote : {Str(r) : r \in RemoteOptions \cap {"Any", "Remote only"}}]

Posting(title, required) ==
    [title |-> Str(title), required_skills |-> required, match_score |-> Absent]

\* the postings the search API knows
Postings == {Posting("A", Absent),
             Posting("B", List(<<"Python", "SQL", "AWS">>))}

\* what search_jobs can do: a reply of at most MaxJobs postings, or a failure
SearchOutcomes == [kind : {"ok"}, jobs : SeqsUpTo(Postings, MaxJobs)]
                  \cup [kind : {"http_error", "network_error"}, jobs : {<<>>}]

Keys == {"", "key"}

Continue == "Continue to Job Preferences"
SearchJobs == "Search Jobs"
Adjust == "Adjust Preferences"
StartOver == "Start Over"
TestApi == "Test TheirStack API"
NoButton == "none"

\* the buttons that set the step
Confirmations == {Continue, SearchJobs, Adjust, StartOver}

NoQuery == [k \in {"title", "location", "company", "remote", "date_posted",
                   "skills", "experience_level"} |-> Absent]
NoJob == [k \in {"title", "required_skills", "match_score"} |-> Absent]

DictTruthy(d) == \E k \in DOMAIN d : d[k].t # "absent"

----------------------------------------------------------------------------
(* The functions main() calls *)

\* process_uploaded_file, for an uploaded file: the text, or None with the
\* error it reported
process_uploaded_file(file, parse) ==
    IF file \notin {"pdf", "docx", "txt"}
    THEN [text |-> NoneV, messages |-> {"Unsupported file format"},
          failures |-> {"unsupported_format"}]
    ELSE IF parse = "error"
    THEN [text |-> NoneV, messages |-> {"Error processing file"},
          failures |-> {"parse_error"}]
    ELSE IF parse = "empty"
    THEN [text |-> Str(""), messages |-> {}, failures |-> {}]
    ELSE [text |-> Str("resume text"), messages |-> {}, failures |-> {}]

\* analyze_resume returning a partial analysis when it fails
analyze_resume_Partial(llm) ==
    IF llm.kind = "ok"
    THEN [analysis |-> llm.analysis, messages |-> {}, failures |-> {}]
    ELSE [analysis |-> Analysis(<<>>, c_mid), messages |-> {"Error analyzing resume"},
          failures |-> {llm.kind}]

\* ResumeAnalyzer.analyze_resume: the parsed reply, or None with the error
analyze_resume(llm) ==
    IF llm.kind = "ok"
    THEN [analysis |-> llm.analysis, messages |-> {}, failures |-> {}]
    ELSE [analysis |-> NoAnalysis, messages |-> {"Error analyzing resume"},
          failures |-> {llm.kind}]

\* JobMatcher.search_jobs: the reply, or [] with the error
search_jobs(search) ==
    IF search.kind = "ok"
    THEN [jobs |-> search.jobs, messages |-> {}, failures |-> {}]
    ELSE [jobs |-> <<>>, messages |-> {"Error searching jobs"},
          failures |-> {search.kind}]

\* test_theirstack_api
test_theirstack_api(api) ==
    IF api = "ok" THEN {"API connection successful"} ELSE {"API Error"}

\* lines 301-313 read these keys with analysis[...]: a missing one raises
Displayable(analysis) == \A k \in AnalysisKeys : analysis[k].t # "absent"

\* lines 366-374
search_query(analysis, preferences) ==
    [title |-> GetOr(preferences, "title", Str("")),
     location |-> GetOr(preferences, "location", Str("")),
     company |-> GetOr(preferences, "company", Str("")),
     remote |-> Bool(Get(preferences, "remote") = Str("Remote only")),
     date_posted |-> GetOr(preferences, "date_posted", Str("Last 30 days")),
     skills |-> GetOr(analysis, "technical_skills", List(<<>>)),
     experience_level |-> GetOr(analysis, "seniority_level", Chars(<<>>))]

\* lines 416-417: every job gets its match_score
Scored(js, cand) ==
    [i \in DOMAIN js |->
        [js[i] EXCEPT !["match_score"] = Float(calculate_match_score(js[i], cand))]]

\* one job put into a list sorted by falling score, behind its equals
RECURSIVE Insert(_, _)
Insert(sorted, j) ==
    IF sorted = <<>> THEN <<j>>
    ELSE IF Head(sorted).match_score.v >= j.match_score.v
    THEN <<Head(sorted)>> \o Insert(Tail(sorted), j)
    ELSE <<j>> \o sorted

\* line 420: jobs.sort(key=match_score, reverse=True), a stable sort
RECURSIVE SortByScore(_)
SortByScore(js) ==
    IF js = <<>> THEN <<>>
    ELSE Insert(SortByScore(SubSeq(js, 1, Len(js) - 1)), js[Len(js)])

----------------------------------------------------------------------------
(* main(): one execution of the script *)

\* what an execution shows: the buttons it rendered, its messages, what failed
\* in it, and whether it ended in st.rerun()
Shown(b, m, f, r) ==
    /\ buttons' = b
    /\ messages' = m
    /\ failures' = f
    /\ rerun' = r

\* an execution that does not search formats no query
NoSearch == query' = NoQuery /\ formatted_query' = NoneV

\* lines 257-274: the sidebar renders the test button once a key is entered
SidebarButtons(tk) == IF tk # "" THEN {TestApi} ELSE {}

SidebarMessages(btn, tk, api) ==
    IF tk # "" /\ btn = TestApi THEN test_theirstack_api(api) ELSE {}

\* ContinueButton with the step set whether or not the button was pressed
ContinueButton_Unpressed(btn, sb, sm, f) ==
    /\ step' = 2
    /\ Shown(sb \cup {Continue}, sm, f, TRUE)

\* lines 316-318: "Continue to Job Preferences" is rendered; pressed, it sets
\* the step and reruns
ContinueButton(btn, sb, sm, f) ==
    IF btn = Continue
    THEN /\ step' = 2
         /\ Shown(sb \cup {Continue}, sm, f, TRUE)
    ELSE /\ UNCHANGED step
         /\ Shown(sb \cup {Continue}, sm, f, FALSE)

\* lines 292-318: the analysis a came back truthy
Analyzed(btn, a, sb, sm) ==
    /\ resume_analysis' = a.analysis
    /\ IF ~Displayable(a.analysis)
       THEN \* analysis[...] raises KeyError out of main()
            /\ UNCHANGED step
            /\ Shown(sb, sm \cup a.messages \cup {"CV analyzed successfully!"},
                     a.failures \cup {"uncaught_exception"}, FALSE)
       ELSE ContinueButton(btn, sb, sm \cup a.messages \cup {"CV analyzed successfully!"},
                           a.failures)

\* lines 285-318: the file's text came back
Extracted(btn, ck, p, sb, sm) ==
    IF ~Truthy(p.text)
    THEN /\ UNCHANGED <<step, resume_analysis>>
         /\ Shown(sb, sm \cup p.messages, p.failures, FALSE)
    ELSE IF ck = ""
    THEN /\ UNCHANGED <<step, resume_analysis>>
         /\ Shown(sb, sm \cup {"Please enter your Claude API key"}, {}, FALSE)
    ELSE \E llm \in LlmOutcomes :
            LET a == analyze_resume(llm)
            IN  IF ~DictTruthy(a.analysis)
                THEN /\ UNCHANGED <<step, resume_analysis>>
                     /\ Shown(sb, sm \cup a.messages, a.failures, FALSE)
                ELSE Analyzed(btn, a, sb, sm)

\* lines 277-318
Step1(btn, ck, file, sb, sm) ==
    /\ uploaded_file' = file
    /\ UNCHANGED <<job_preferences, jobs>>
    /\ NoSearch
    /\ IF file = NoFile
       THEN /\ UNCHANGED <<step, resume_analysis>>
            /\ Shown(sb, sm, {}, FALSE)
       ELSE \E parse \in ParseOutcomes :
                Extracted(btn, ck, process_uploaded_file(file, parse), sb, sm)

\* SearchPressed without the check of line 338
SearchPressed_Unchecked(form, sb, sm) ==
    /\ job_preferences' = form
    /\ step' = 3
    /\ Shown(sb \cup {SearchJobs}, sm, {}, TRUE)

\* lines 338-349: "Search Jobs" was pressed
SearchPressed(form, sb, sm) ==
    IF ~Truthy(form.title) /\ ~Truthy(form.company)
    THEN /\ UNCHANGED <<step, job_preferences>>
         /\ Shown(sb \cup {SearchJobs},
                  sm \cup {"Please enter either a job title or company name"},
                  {}, FALSE)
    ELSE /\ job_preferences' = form
         /\ step' = 3
         /\ Shown(sb \cup {SearchJobs}, sm, {}, TRUE)

\* lines 321-349
Step2(btn, form, sb, sm) ==
    /\ uploaded_file' = NoFile
    /\ UNCHANGED <<resume_analysis, jobs>>
    /\ NoSearch
    /\ IF btn = SearchJobs
       THEN SearchPressed(form, sb, sm)
       ELSE /\ UNCHANGED <<step, job_preferences>>
            /\ Shown(sb \cup {SearchJobs}, sm, {}, FALSE)

\* lines 382-385: the search found jobs
JobsFound(res, sb, sm) ==
    /\ jobs' = res.jobs
    /\ step' = 4
    /\ Shown(sb, sm \cup res.messages, res.failures, TRUE)

\* NoJobsFound with "Adjust Preferences" leading to the upload step
NoJobsFound_ToUpload(btn, res, sb, sm) ==
    /\ UNCHANGED jobs
    /\ IF btn = Adjust
       THEN /\ step' = 1
            /\ Shown(sb \cup {Adjust}, sm \cup res.messages \cup {"No jobs found"},
                     res.failures, TRUE)
       ELSE /\ UNCHANGED step
            /\ Shown(sb \cup {Adjust}, sm \cup res.messages \cup {"No jobs found"},
                     res.failures, FALSE)

\* lines 386-392: it found none; "Adjust Preferences" is rendered
NoJobsFound(btn, res, sb, sm) ==
    /\ UNCHANGED jobs
    /\ IF btn = Adjust
       THEN /\ step' = 2
            /\ Shown(sb \cup {Adjust}, sm \cup res.messages \cup {"No jobs found"},
                     res.failures, TRUE)
       ELSE /\ UNCHANGED step
            /\ Shown(sb \cup {Adjust}, sm \cup res.messages \cup {"No jobs found"},
                     res.failures, FALSE)

\* Searched without the `if jobs:` of line 382
Searched_Unchecked(btn, res, sb, sm) == JobsFound(res, sb, sm)

\* lines 380-392: `if jobs:`
Searched(btn, res, sb, sm) ==
    IF res.jobs # <<>>
    THEN JobsFound(res, sb, sm)
    ELSE NoJobsFound(btn, res, sb, sm)

\* lines 352-399
Step3(btn, tk, search, sb, sm) ==
    LET sq == search_query(resume_analysis, job_preferences)
    IN  /\ uploaded_file' = NoFile
        /\ UNCHANGED <<resume_analysis, job_preferences>>
        /\ IF tk = ""
           THEN /\ UNCHANGED <<step, jobs>>
                /\ NoSearch
                /\ Shown(sb, sm \cup {"Please enter your TheirStack API key"}, {}, FALSE)
           ELSE /\ query' = sq
                /\ formatted_query' = format_search_query(sq)
                /\ Searched(btn, search_jobs(search), sb, sm)

\* Results with "Start Over" dropping the stored jobs
Results_Discarding(btn, js, sb, sm) ==
    IF btn = StartOver
    THEN /\ jobs' = <<>>
         /\ step' = 1
         /\ Shown(sb \cup {StartOver}, sm, {}, TRUE)
    ELSE /\ jobs' = js
         /\ UNCHANGED step
         /\ Shown(sb \cup {StartOver}, sm, {}, FALSE)

\* lines 416-480: the jobs, scored and sorted in place, are shown with
\* "Start Over"; pressed, it sets the step and reruns
Results(btn, js, sb, sm) ==
    /\ jobs' = js
    /\ IF btn = StartOver
       THEN /\ step' = 1
            /\ Shown(sb \cup {StartOver}, sm, {}, TRUE)
       ELSE /\ UNCHANGED step
            /\ Shown(sb \cup {StartOver}, sm, {}, FALSE)

\* lines 402-480
Step4(btn, sb, sm) ==
    LET cand == GetOr(resume_analysis, "technical_skills", List(<<>>)).v
    IN  /\ uploaded_file' = NoFile
        /\ UNCHANGED <<resume_analysis, job_preferences>>
        /\ NoSearch
        /\ IF jobs = <<>>
           THEN /\ UNCHANGED <<step, jobs>>
                /\ Shown(sb, sm \cup {"No job matches found"}, {}, FALSE)
           ELSE Results(btn, SortByScore(Scored(jobs, cand)), sb, sm)

\* main(), started by a press of btn (or of nothing) with the widgets as given;
\* api is what the connectivity test finds, if it is run
Main(btn, ck, tk, file, api) ==
    LET sb == SidebarButtons(tk)
        sm == SidebarMessages(btn, tk, api)
    IN  /\ pressed' = btn
        /\ claude_api_key' = ck
        /\ theirstack_api_key' = tk
        /\ UNCHANGED scorer
        /\ CASE step = 1 -> Step1(btn, ck, file, sb, sm)
             [] step = 2 -> \E form \in Forms : Step2(btn, form, sb, sm)
             [] step = 3 -> \E search \in SearchOutcomes : Step3(btn, tk, search, sb, sm)
             [] step = 4 -> Step4(btn, sb, sm)

----------------------------------------------------------------------------
(* The user's actions: each one starts an execution of main() *)

\* typing a Claude API key into the sidebar
SetClaudeKey ==
    /\ ~rerun
    /\ \E k \in Keys \ {claude_api_key} : Main(NoButton, k, theirstack_api_key, uploaded_file, "ok")

\* typing a TheirStack API key into the sidebar
SetTheirStackKey ==
    /\ ~rerun
    /\ \E k \in Keys \ {theirstack_api_key} : Main(NoButton, claude_api_key, k, uploaded_file, "ok")

\* choosing a file in the uploader, or removing it
UploadCV ==
    /\ ~rerun
    /\ step = 1
    /\ \E f \in (Extensions \cup {NoFile}) \ {uploaded_file} :
         Main(NoButton, claude_api_key, theirstack_api_key, f, "ok")

\* changing a widget that sets nothing: a field of the step 2 form, a filter
\* of the results
ChangeWidget ==
    /\ ~rerun
    /\ step \in {2, 4}
    /\ Main(NoButton, claude_api_key, theirstack_api_key, uploaded_file, "ok")

\* the connectivity test: the API answers 200, or does not
PressTestApi ==
    /\ ~rerun
    /\ TestApi \in buttons
    /\ \E api \in {"ok", "fail"} :
         Main(TestApi, claude_api_key, theirstack_api_key, uploaded_file, api)

\* pressing a button the last execution rendered
PressContinue ==
    /\ ~rerun
    /\ Continue \in buttons
    /\ Main(Continue, claude_api_key, theirstack_api_key, uploaded_file, "ok")

PressSearchJobs ==
    /\ ~rerun
    /\ SearchJobs \in buttons
    /\ Main(SearchJobs, claude_api_key, theirstack_api_key, uploaded_file, "ok")

PressAdjust ==
    /\ ~rerun
    /\ Adjust \in buttons
    /\ Main(Adjust, claude_api_key, theirstack_api_key, uploaded_file, "ok")

PressStartOver ==
    /\ ~rerun
    /\ StartOver \in buttons
    /\ Main(StartOver, claude_api_key, theirstack_api_key, uploaded_file, "ok")

\* st.rerun(): the script runs again at once, no button pressed
Rerun ==
    /\ rerun
    /\ Main(NoButton, claude_api_key, theirstack_api_key, uploaded_file, "ok")

\* nothing handed to the formatter or the scorer yet
IdleFormatter == query = NoQuery /\ formatted_query = NoneV
IdleScorer == job = NoJob /\ candidate_skills = <<>> /\ score = NoneV /\ earlier = NoneV

\* the page as first loaded: step 1, nothing stored, no key, no file
SessionInit ==
    /\ step = 1
    /\ resume_analysis = NoAnalysis
    /\ job_preferences = NoPreferences
    /\ jobs = <<>>
    /\ claude_api_key = ""
    /\ theirstack_api_key = ""
    /\ uploaded_file = NoFile
    /\ buttons = {}
    /\ messages = {}
    /\ pressed = NoButton
    /\ failures = {}
    /\ rerun = FALSE

Init == SessionInit /\ IdleFormatter /\ IdleScorer

Next ==
    \/ SetClaudeKey
    \/ SetTheirStackKey
    \/ UploadCV
    \/ ChangeWidget
    \/ PressTestApi
    \/ PressContinue
    \/ PressSearchJobs
    \/ PressAdjust
    \/ PressStartOver
    \/ Rerun

Spec == Init /\ [][Next]_vars

----------------------------------------------------------------------------
(* _format_search_query on its own: every query of a bounded set *)

OptionalStr(S) == {Absent} \cup {Str(x) : x \in S}

Queries ==
    [title : OptionalStr({"", "Engineer"}),
     location : OptionalStr({"", "NYC"}),
     company : OptionalStr({"", "Acme"}),
     remote : {Absent, Bool(TRUE), Bool(FALSE), Str("Remote only")},
     date_posted : OptionalStr(DateOptions \cup {"Anytime"}),
     skills : {Absent, Str("Python")}
              \cup {List(l) : l \in SeqsUpTo({"Python", "SQL"}, MaxQuerySkills)},
     experience_level : {Absent} \cup {Chars(c) : c \in
                            {<<>>, c_senior, c_Senior, c_Mid, c_entry, c_lead}}]

\* a query has been formatted
Formatted == "posted_at_max_age_days" \in DOMAIN formatted_query

FormatInit == SessionInit /\ IdleScorer /\ query \in Queries /\ formatted_query = NoneV

FormatQuery ==
    /\ ~Formatted
    /\ formatted_query' = format_search_query(query)
    /\ UNCHANGED <<session, widgets, display, query, scorer>>

SpecFormat == FormatInit /\ [][FormatQuery]_vars

----------------------------------------------------------------------------
(* calculate_match_score on its own: every job and candidate of a bounded set *)

SkillLists == SeqsUpTo(Skills, MaxSkills)

ScoredJobs == [title : {Str("A")}, match_score : {Absent},
               required_skills : {Absent} \cup {List(l) : l \in SkillLists}]

\* a job has been scored
HasScore == score.t = "float"

ScoreInit ==
    /\ SessionInit /\ IdleFormatter
    /\ job \in ScoredJobs
    /\ candidate_skills \in SkillLists
    /\ score = NoneV
    /\ earlier = NoneV

ScoreJob ==
    /\ ~HasScore
    /\ score' = Float(calculate_match_score(job, candidate_skills))
    /\ UNCHANGED <<session, widgets, display, formatter, job, candidate_skills, earlier>>

SpecScore == ScoreInit /\ [][ScoreJob]_vars

\* the same job scored again for a candidate who has learnt more: the list
\* grows by the skills of more
ScoreAgain ==
    /\ HasScore
    /\ earlier.t = "none"
    /\ \E more \in SkillLists \ {<<>>} :
         /\ Len(candidate_skills) + Len(more) <= MaxSkills
         /\ candidate_skills' = candidate_skills \o more
         /\ score' = Float(calculate_match_score(job, candidate_skills \o more))
    /\ earlier' = [t |-> "call", candidate_skills |-> candidate_skills, score |-> score]
    /\ UNCHANGED <<session, widgets, display, formatter, job>>

SpecGrow == ScoreInit /\ [][ScoreJob \/ ScoreAgain]_vars

----------------------------------------------------------------------------
(* The session's claims, checked under Spec *)

AllowedEdges == {<<1, 2>>, <<2, 3>>, <<3, 4>>, <<3, 2>>, <<4, 1>>}

\* C1: the step is always one of 1..4, and it only ever changes along
\* 1->2, 2->3, 3->4, the retry 3->2 and the reset 4->1.
C1_StepEdges ==
    /\ step \in 1..4
    /\ [][/\ step' \in 1..4
          /\ step' # step => <<step, step'>> \in AllowedEdges]_vars

\* the retry edge taken in a session that has been through every other edge
C1_Witness == step = 2 /\ pressed = Adjust /\ rerun /\ jobs # <<>>

SearchFailures == {"http_error", "network_error"}

\* C2: a search that finds no jobs, or fails, never leads to the results: the
\* step stays at 3 with "Adjust Preferences" rendered (pressed, it leads to
\* step 2); whenever the step goes from 3 to 4 the stored job list is not empty.
C2_EmptySearch ==
    [][step = 3 =>
        /\ step' = 4 => jobs' # <<>>
        /\ ("No jobs found" \in messages' \/ failures' \cap SearchFailures # {}) =>
              /\ step' # 4
              /\ Adjust \in buttons'
              /\ step' = 3 \/ (step' = 2 /\ pressed' = Adjust)]_vars

\* a failed search that left the session at step 3, offering the way back
C2_Witness ==
    /\ step = 3 /\ ~rerun
    /\ "Error searching jobs" \in messages
    /\ Adjust \in buttons

\* C3 as claimed: right after "Start Over" or "Adjust Preferences" the session
\* holds no job list.
C3_Original ==
    ((step = 1 /\ pressed = StartOver) \/ (step = 2 /\ pressed = Adjust)) => jobs = <<>>

\* C3 as amended: both resets change the step only; the job list with its
\* scores, the profile and the preferences stay stored.
C3_ResetsKeepJobs ==
    [][((step = 4 /\ step' = 1) \/ (step = 3 /\ step' = 2)) =>
        /\ jobs' = jobs
        /\ resume_analysis' = resume_analysis
        /\ job_preferences' = job_preferences]_vars

\* right after "Start Over": the scored jobs of the search are still stored
C3_Witness ==
    /\ step = 1 /\ pressed = StartOver
    /\ jobs # <<>>
    /\ jobs[1].match_score.t = "float"

\* C4 as claimed: every change of the step comes with a press of a
\* confirmation button.
C4_Original == [][step' # step => pressed' \in Confirmations]_vars

ButtonOf(from, to) ==
    CASE <<from, to>> = <<1, 2>> -> Continue
      [] <<from, to>> = <<2, 3>> -> SearchJobs
      [] <<from, to>> = <<3, 2>> -> Adjust
      [] <<from, to>> = <<4, 1>> -> StartOver
      [] OTHER -> NoButton

\* C4 as amended: every change of the step other than 3->4 comes with a press
\* of the button of the current step; 3->4 needs no press.
C4_PressedExceptResults ==
    [][step' # step =>
        \/ <<step, step'>> = <<3, 4>>
        \/ pressed' = ButtonOf(step, step') /\ pressed' \in Confirmations]_vars

\* the step went from 3 to 4 in an execution no button started
C4_Witness == step = 4 /\ rerun /\ pressed = NoButton

Prompts == {"Please enter your Claude API key",
            "Please enter either a job title or company name",
            "Please enter your TheirStack API key"}

\* 1->2 only with the text of a supported file, a Claude key and a profile
Gate12 ==
    (step = 1 /\ step' = 2) =>
        /\ uploaded_file' \in {"pdf", "docx", "txt"}
        /\ claude_api_key' # ""
        /\ "CV analyzed successfully!" \in messages'
        /\ Displayable(resume_analysis')

\* 2->3 only with a title or a company
Gate23 ==
    (step = 2 /\ step' = 3) =>
        \/ job_preferences'.title \notin {Absent, Str("")}
        \/ job_preferences'.company \notin {Absent, Str("")}

\* the step leaves 3 only with a TheirStack key
Gate3 == (step = 3 /\ step' # 3) => theirstack_api_key' # ""

\* an execution that asks for a missing input leaves the step alone, and one
\* at step 3 without a TheirStack key asks for it
Blocked ==
    /\ messages' \cap Prompts # {} => step' = step
    /\ (step = 3 /\ theirstack_api_key' = "") =>
          "Please enter your TheirStack API key" \in messages'

\* C5 as claimed: each transition needs its inputs, and the session enters
\* step 3 only with a TheirStack key.
C5_Original ==
    [][/\ Gate12 /\ Gate23 /\ Gate3 /\ Blocked
       /\ (step = 2 /\ step' = 3) => theirstack_api_key' # ""]_vars

\* C5 as amended: each transition needs its inputs; the TheirStack key is
\* needed to leave step 3, not to enter it.
C5_Gates == [][Gate12 /\ Gate23 /\ Gate3 /\ Blocked]_vars

\* at step 3 without a key: the search is blocked and the key asked for
C5_Witness ==
    /\ step = 3 /\ theirstack_api_key = ""
    /\ "Please enter your TheirStack API key" \in messages

CaughtFailures == {"unsupported_format", "parse_error", "call_error", "json_error"}
                  \cup SearchFailures

----------------------------------------------------------------------------
(* The formatter's claims, checked under SpecFormat *)

Recency == "posted_at_max_age_days"

\* the three labels of the lookup
Recognized == {Str("Last 24 hours"), Str("Last 7 days"), Str("Last 30 days")}

\* C7: every formatted query has the recency key; it is 1, 7, 30 for
\* "Last 24 hours", "Last 7 days", "Last 30 days" and 90 for any other label
\* and for no label.
C7_Recency ==
    Formatted =>
        /\ Recency \in DOMAIN formatted_query
        /\ query.date_posted = Str("Last 24 hours") => formatted_query[Recency] = 1
        /\ query.date_posted = Str("Last 7 days") => formatted_query[Recency] = 7
        /\ query.date_posted = Str("Last 30 days") => formatted_query[Recency] = 30
        /\ query.date_posted \notin Recognized => formatted_query[Recency] = 90

\* a query without a label, formatted with the default
C7_Witness ==
    /\ Formatted
    /\ query.date_posted = Absent
    /\ formatted_query[Recency] = 90

\* a string that is there and not empty
Present(x) == x.t = "str" /\ x.v # ""

\* the spellings of the accepted levels among the queries, lower-cased
LowerCased(level) ==
    CASE level = c_senior -> c_senior
      [] level = c_Senior -> c_senior
      [] level = c_Mid -> c_mid
      [] level = c_entry -> c_entry

Accepted(x) == x.t = "chars" /\ x.v \in {c_senior, c_Senior, c_Mid, c_entry}

OptionalKeys == {"company_name_or", "job_title_contains_any", "location_contains_any",
                 "remote_contains_any", "technologies_contains_any",
                 "seniority_contains_any"}

\* the example of the specification
ExampleQuery ==
    [title |-> Str(""), location |-> Absent, company |-> Str("Acme"),
     remote |-> Bool(TRUE), date_posted |-> Str("Last 7 days"),
     skills |-> List(<<"Python">>), experience_level |-> Chars(c_senior)]

ExampleFormatted ==
    [posted_at_max_age_days |-> 7, company_name_or |-> <<"Acme">>,
     remote_contains_any |-> <<"true">>, technologies_contains_any |-> <<"Python">>,
     seniority_contains_any |-> <<c_senior>>]

\* C8: each optional key is emitted exactly when its source value is there:
\* the company, the title and the location when not empty, remote when it is
\* True, the technologies when skills is a list that is not empty, the
\* seniority when the lower-cased level is entry, mid or senior (and it is the
\* lower-cased level that is emitted); no emitted value is empty; the example
\* query gives the example's five keys.
C8_OptionalKeys ==
    Formatted =>
        LET q == query
            f == formatted_query
            K == DOMAIN formatted_query
        IN  /\ K \subseteq OptionalKeys \cup {Recency}
            /\ "company_name_or" \in K <=> Present(q.company)
            /\ "company_name_or" \in K => f["company_name_or"] = <<q.company.v>>
            /\ "job_title_contains_any" \in K <=> Present(q.title)
            /\ "job_title_contains_any" \in K => f["job_title_contains_any"] = <<q.title.v>>
            /\ "location_contains_any" \in K <=> Present(q.location)
            /\ "location_contains_any" \in K => f["location_contains_any"] = <<q.location.v>>
            /\ "remote_contains_any" \in K <=> q.remote = Bool(TRUE)
            /\ "remote_contains_any" \in K => f["remote_contains_any"] = <<"true">>
            /\ "technologies_contains_any" \in K <=> (q.skills.t = "list" /\ q.skills.v # <<>>)
            /\ "technologies_contains_any" \in K => f["technologies_contains_any"] = q.skills.v
            /\ "seniority_contains_any" \in K <=> Accepted(q.experience_level)
            /\ "seniority_contains_any" \in K =>
                  f["seniority_contains_any"] = <<LowerCased(q.experience_level.v)>>
            /\ \A k \in K \cap OptionalKeys : f[k] # <<>>
            /\ q = ExampleQuery => f = ExampleFormatted

\* the example query, formatted
C8_Witness == Formatted /\ query = ExampleQuery /\ DOMAIN formatted_query = DOMAIN ExampleFormatted

\* no title, company, location or skills
Bare(q) ==
    /\ ~Present(q.title) /\ ~Present(q.company) /\ ~Present(q.location)
    /\ q.skills \in {Absent, List(<<>>)}

\* C9 as claimed: a query with no title, company, location or skills formats
\* to the recency key alone, 90 when the label is not recognized.
C9_Original ==
    (Formatted /\ Bare(query)) =>
        /\ DOMAIN formatted_query = {Recency}
        /\ query.date_posted \notin Recognized => formatted_query[Recency] = 90

\* C9 as amended: so it does when, besides, remote is not True and the level
\* is not an accepted one.
C9_BareQuery ==
    (Formatted /\ Bare(query) /\ query.remote # Bool(TRUE)
       /\ ~Accepted(query.experience_level)) =>
        /\ DOMAIN formatted_query = {Recency}
        /\ query.date_posted \notin Recognized => formatted_query[Recency] = 90

\* a bare query with an empty location and an unknown label: one key, 90
C9_Witness ==
    /\ Formatted /\ Bare(query)
    /\ query.location = Str("") /\ query.remote = Bool(FALSE)
    /\ query.date_posted = Str("Anytime")
    /\ ~Accepted(query.experience_level)
    /\ DOMAIN formatted_query = {Recency}
    /\ formatted_query[Recency] = 90

----------------------------------------------------------------------------
(* The scorer's claims, checked under SpecScore *)

\* the skills a job asks for, as a set; none when the key is missing
Required(j) == IF j.required_skills.t = "list"
               THEN {j.required_skills.v[i] : i \in DOMAIN j.required_skills.v}
               ELSE {}

Candidate(c) == {c[i] : i \in DOMAIN c}

\* s is 100 * num / den to the nearest hundredth, in hundredths
Nearest(s, num, den) ==
    /\ 2 * (s * den - 10000 * num) <= den
    /\ 2 * (10000 * num - s * den) <= den

\* C10: the score is 100 * |required & candidate| / |required| rounded to two
\* decimals, both lists taken as sets; it is 0.0 when the job asks for no
\* skills or has no required_skills; it lies in 0..100; [Python, SQL, AWS]
\* against [Python, SQL] scores 66.67.
C10_Score ==
    HasScore =>
        LET R == Required(job)
            C == Candidate(candidate_skills)
        IN  /\ R = {} => score.v = 0
            /\ R # {} => Nearest(score.v, Cardinality(R \cap C), Cardinality(R))
            /\ score.v \in 0..10000
            /\ (job.required_skills = List(<<"Python", "SQL", "AWS">>)
                  /\ candidate_skills = <<"Python", "SQL">>) => score.v = 6667

\* the example, scored
C10_Witness ==
    /\ HasScore
    /\ job.required_skills = List(<<"Python", "SQL", "AWS">>)
    /\ candidate_skills = <<"Python", "SQL">>
    /\ score.v = 6667

----------------------------------------------------------------------------
(* The scorer's claims, checked under SpecGrow *)

\* C11: the score never falls as the candidate's skill set grows: a job scored
\* for skills A and then for skills B with A a subset of B scores no lower
\* the second time.
C11_Monotone ==
    earlier.t = "call" =>
        (Candidate(earlier.candidate_skills) \subseteq Candidate(candidate_skills)
            => earlier.score.v <= score.v)

\* a job scored twice: the candidate learnt a skill it asks for and one it
\* does not, and the score rose
C11_Witness ==
    /\ earlier.t = "call"
    /\ job.required_skills = List(<<"Python", "SQL">>)
    /\ earlier.candidate_skills = <<"Python">>
    /\ candidate_skills = <<"Python", "SQL", "AWS">>
    /\ earlier.score.v = 5000
    /\ score.v = 10000

====
